---- MODULE Spec2Model ----
(***************************************************************************)
(* Request execution pipeline of the Manapool Go client:                   *)
(*   endpoint wrapper (GetSellerInventory)                                 *)
(*     -> doRequest -> doRequestWithBody (rate limiter, retry loop)        *)
(*     -> decodeResponse -> typed result or typed error.                   *)
(* One logical call is followed from the wrapper's entry to its return.    *)
(* The call's context, the limiter's bucket and the backend are the        *)
(* environment.                                                            *)
(* Beside it: the client shared by concurrent callers, decodeResponse     *)
(* taken alone, the endpoint wrappers' checks of their arguments, the      *)
(* executor's entry points and the request they build, Timestamp's JSON    *)
(* methods, and IterateInventory over a paged backend.                     *)
(***************************************************************************)
EXTENDS Integers, Sequences, FiniteSets, TLC

\* ---------------------------------------------------------------- bounds
\* largest retry count a client is configured with
MaxRetriesBound == 3
\* largest initial backoff (in abstract duration units) a client is configured with
MaxInitialBackoff == 2
\* burst capacity of the shared token bucket
Burst == 1
\* number of concurrent callers sharing one client
NumCalls == 2
\* largest retry count of the client shared by the concurrent callers
ConcMaxRetries == 1
\* longest wait, in ticks, the limiter is asked to reserve
MaxWait == 2
\* longest item list passed to a bulk wrapper
MaxItems == 1
\* the largest Pagination.Total of a backend
MaxTotal == 3
\* the largest page a backend serves
MaxPage == 2

\* ------------------------------------------------------------- constants
StatusOK == 200
StatusMultipleChoices == 300
StatusNotFound == 404
StatusInternalServerError == 500
\* IterateInventory's page size and InventoryOptions' default and maximum limit
DefaultLimit == 500

\* status codes the backend answers with: 2xx, 3xx, 4xx and 5xx
Statuses == {200, 301, 400, 404, 429, 500, 503}
\* outcome of one httpClient.Do: a transport failure (0) or a response status
TransportFailure == 0
Outcomes == {TransportFailure} \cup Statuses

\* a member of a JSON object: absent, a number, or a string
Absent == [k |-> "absent", s |-> ""]
Number == [k |-> "number", s |-> "5"]
Str(x) == [k |-> "string", s |-> x]

\* what io.ReadAll(resp.Body) yields: a read failure or the bytes read, which
\* are empty, not JSON, a JSON array, or a JSON object with members `error`
\* and `message`
Body(shape, error, message) == [shape |-> shape, error |-> error, message |-> message]
NoBody == Body("none", Absent, Absent)
ReadFailure == Body("readfail", Absent, Absent)
EmptyBody == Body("empty", Absent, Absent)
Malformed == Body("malformed", Absent, Absent)
ArrayBody == Body("array", Absent, Absent)
Object(error, message) == Body("object", error, message)
ObjectBody == Object(Absent, Absent)

ErrorVals == {Absent, Number, Str(""), Str("not found")}
MessageVals == {Absent, Number, Str(""), Str("unauthorized")}
Bodies ==
  {ReadFailure, EmptyBody, Malformed, ArrayBody}
    \cup {Object(e, m) : e \in ErrorVals, m \in MessageVals}
\* what reading the final response's body yields in a call followed end to end
BodyKinds == {ReadFailure, EmptyBody, ObjectBody, Malformed}

\* the v argument of decodeResponse: nil, a *interface{} or a pointer to a struct
Targets == {"nil", "any", "struct"}

VARIABLES
  maxRetries,      \* Client.maxRetries
  initialBackoff,  \* Client.initialBackoff
  baseURLOk,       \* Client.baseURL parses as a URL
  bucket,          \* tokens available in Client.rateLimiter
  ctxCancelled,    \* ctx.Err() != nil
  pc,              \* position of the logical call
  optsLimit,       \* opts.Limit inside GetSellerInventory
  optsOffset,      \* opts.Offset inside GetSellerInventory
  attempt,         \* loop variable of doRequestWithBody
  backoff,         \* local backoff of doRequestWithBody
  resp,            \* local resp of doRequestWithBody
  retResp,         \* response returned by doRequestWithBody
  retErr,          \* error returned by doRequestWithBody
  result,          \* result returned by the endpoint wrapper
  err,             \* error returned by the endpoint wrapper
  attempts,        \* number of httpClient.Do calls made
  tokensAcquired,  \* number of tokens granted by rateLimiter.Wait
  sleeps,          \* durations passed to time.Sleep, in order
  outcomes,        \* outcome of each httpClient.Do, in order
  respBody,        \* what decodeResponse read from the final response's body
  closes,          \* ids of the responses whose Body.Close was called, in order
  decIn,           \* arguments of one decodeResponse call taken alone
  decOut,          \* what that call returned and did to its target
  wrapper,         \* the endpoint wrapper called
  args,            \* its required identifiers and its item list
  entry,           \* the body and contentType arguments of doRequestWithBody
  req,             \* the request built once by doRequestWithBody: body and Content-Type header
  sent,            \* what each httpClient.Do found to transmit as the body, in order
  ts,              \* one Timestamp taken through MarshalJSON and UnmarshalJSON
  itPc,            \* position of one IterateInventory call
  itOffset,        \* local offset of IterateInventory
  itResp,          \* resp of IterateInventory: the page GetSellerInventory returned
  idx,             \* how many items of resp.Inventory the callback was given
  itErr,           \* the error IterateInventory returned
  requested,       \* the offsets GetSellerInventory was called with, in order
  fetched,         \* what each of those calls returned: Pagination.Returned or a failure
  seen,            \* the items given to the callback, in order
  backend,         \* the APIClient behind IterateInventory: its kind and its Total
  calls,           \* concurrent callers of the shared client: each one's position and locals
  lastLeft,        \* ticks until the limiter's latest reserved slot
  window           \* observer: the slack of the tightest time window that ends now

vars == <<maxRetries, initialBackoff, baseURLOk, bucket, ctxCancelled, pc,
          optsLimit, optsOffset, attempt, backoff, resp, retResp, retErr,
          result, err, attempts, tokensAcquired, sleeps, outcomes, respBody,
          closes, decIn, decOut, wrapper, args, entry, req, sent, ts, itPc,
          itOffset, itResp, idx, itErr, requested, fetched, seen, backend, calls,
          lastLeft, window>>

\* the state of the concurrent callers and of the limiter's reservations
concVars == <<calls, lastLeft, window>>
\* the state of the one call followed step by step
callVars == <<ctxCancelled, pc, optsLimit, optsOffset, attempt, backoff, resp,
              req, retResp, retErr, result, err, attempts, tokensAcquired,
              sleeps, outcomes, sent, respBody, closes>>

\* one decodeResponse call taken alone
decodeVars == <<decIn, decOut>>
\* one Timestamp taken alone
tsVars == <<ts>>
\* one IterateInventory call and the backend it is served by
iterVars == <<itPc, itOffset, itResp, idx, itErr, requested, fetched, seen, backend>>
\* the endpoint wrapper called and its arguments
wrapVars == <<wrapper, args, entry>>

config == <<maxRetries, initialBackoff, baseURLOk>>
locals == <<attempt, backoff, resp, req>>
returned == <<retResp, retErr>>
wrapperOut == <<result, err, respBody>>
history == <<attempts, tokensAcquired, sleeps, outcomes, sent, closes>>

\* ---------------------------------------------------------------- values
\* a nil *http.Response
NilResp == [status |-> 0, id |-> 0]
\* the response obtained by the id-th httpClient.Do
Response(status, id) == [status |-> status, id |-> id]

\* a nil error
NoErr == [kind |-> "nil", msg |-> "", cause |-> 0, status |-> 0, wrapped |-> FALSE]

\* errors.go: &NetworkError{Message: msg, Err: cause}; cause is the number
\* of the httpClient.Do that produced the wrapped error, 0 for a context
\* or builder error
NewNetworkError(msg, cause) ==
  [kind |-> "NetworkError", msg |-> msg, cause |-> cause, status |-> 0, wrapped |-> FALSE]

\* errors.go: &ValidationError{Field: field, Message: ...}
NewValidationError(field) ==
  [kind |-> "ValidationError", msg |-> field, cause |-> 0, status |-> 0, wrapped |-> FALSE]

\* &APIError{StatusCode: status, Message: ..., Response: resp}
NewAPIError(status, message) ==
  [kind |-> "APIError", msg |-> message, cause |-> 0, status |-> status, wrapped |-> FALSE]

\* fmt.Errorf("...", ...) without %w: an error of no typed kind
PlainError(msg) ==
  [kind |-> "error", msg |-> msg, cause |-> 0, status |-> 0, wrapped |-> FALSE]

\* fmt.Errorf("...: %w", e): errors.As still finds e's kind
Wrapf(e) == [e EXCEPT !.wrapped = TRUE]

\* APIError.IsNotFound
IsNotFound(e) == e.kind = "APIError" /\ e.status = StatusNotFound
\* APIError.IsServerError
IsServerError(e) == e.kind = "APIError" /\ e.status >= StatusInternalServerError

\* ------------------------------------------------- doRequestWithBody
\* `if err := c.rateLimiter.Wait(ctx); err != nil`: Wait fails when ctx is done
LimiterWaitFailed_Ignored(cancelled) == FALSE
LimiterWaitFailed(cancelled) == cancelled

\* loop condition `attempt <= c.maxRetries`
LoopCond_Short(a, n) == a < n
LoopCond(a, n) == a <= n

\* for-post statement `attempt++`
NextAttempt_Stuck(a) == a
NextAttempt(a) == a + 1

\* `if ctx.Err() != nil` after a failed httpClient.Do
CtxAborts_Ignored(cancelled) == FALSE
CtxAborts(cancelled) == cancelled

\* `if attempt < c.maxRetries` after a failed httpClient.Do
RetryOnNetworkError_Never(a, n) == FALSE
RetryOnNetworkError(a, n) == a < n

\* `if resp.StatusCode < 500 || attempt == c.maxRetries { break }`
StopLoop_Retry4xx(status, a, n) == status < 400 \/ a = n
StopLoop_RetryAll(status, a, n) == a = n
StopLoop(status, a, n) == status < StatusInternalServerError \/ a = n

\* `_ = resp.Body.Close()` before the retry of a 5xx response: the bodies closed
RetryCloses_Leak(id) == <<>>
RetryCloses(id) == <<id>>

\* `backoff *= 2`
DoubleBackoff_Linear(b) == b + 1
DoubleBackoff(b) == b * 2

\* ------------------------------------------------------ decodeResponse
\* `defer func() { _ = resp.Body.Close() }()`: the bodies closed on return
DecodeCloses(id) == <<id>>

\* one member of a JSON object as text
Member(name, f) ==
  IF f.k = "absent" THEN ""
  ELSE "\"" \o name \o "\":" \o (IF f.k = "string" THEN "\"" \o f.s \o "\"" ELSE f.s)

\* `string(body)`: the bytes read, as text
Raw(body) ==
  CASE body.shape = "object" ->
         "{" \o Member("error", body.error)
             \o (IF body.error.k # "absent" /\ body.message.k # "absent" THEN "," ELSE "")
             \o Member("message", body.message) \o "}"
    [] body.shape = "array" -> "[1,2]"
    [] body.shape = "malformed" -> "{invalid json}"
    [] OTHER -> ""

\* `json.Unmarshal(body, &errorResp) == nil`: the body is a JSON object
\* whose `error` and `message`, where present, are strings
EnvelopeDecodes(body) ==
  /\ body.shape = "object"
  /\ body.error.k # "number"
  /\ body.message.k # "number"

\* a string field of errorResp after Unmarshal: "" when the member is absent
StringField(f) == IF f.k = "string" THEN f.s ELSE ""

\* apiErr.Message: the raw body, refined by errorResp.Error, else by
\* errorResp.Message
APIMessage_RawOnly(body) == Raw(body)
APIMessage_ErrorOnly(body) ==
  IF EnvelopeDecodes(body) /\ StringField(body.error) # ""
    THEN StringField(body.error)
    ELSE Raw(body)
APIMessage(body) ==
  IF EnvelopeDecodes(body)
    THEN IF StringField(body.error) # "" THEN StringField(body.error)
         ELSE IF StringField(body.message) # "" THEN StringField(body.message)
         ELSE Raw(body)
    ELSE Raw(body)

\* `v != nil && len(body) > 0`
ShouldUnmarshal_NoLenCheck(body, target) == target # "nil"
ShouldUnmarshal(body, target) == target # "nil" /\ Len(Raw(body)) > 0

\* `json.Unmarshal(body, v)` returns nil: the body is well-formed JSON of a
\* type v can hold; a pointer to a struct holds a JSON object only
Unmarshals_AnyWellFormed(body, target) == body.shape \in {"object", "array"}
Unmarshals(body, target) ==
  /\ body.shape \in {"object", "array"}
  /\ target = "struct" => body.shape = "object"

\* the error decodeResponse(resp, v) returns when reading resp.Body yields
\* body; target is v
decodeResponse(r, body, target) ==
  IF body.shape = "readfail"
    THEN NewNetworkError("failed to read response body", 0)
  ELSE IF r.status < StatusOK \/ r.status >= StatusMultipleChoices
    THEN NewAPIError(r.status, APIMessage(body))
  ELSE IF ShouldUnmarshal(body, target)
    THEN IF Unmarshals(body, target)
           THEN NoErr
           ELSE Wrapf(PlainError("failed to decode response"))
  ELSE NoErr

\* what decodeResponse(resp, v) has done to *v: nothing, or decoded the
\* body into it (an Unmarshal that fails on these bodies writes nothing)
targetAfter(r, body, target) ==
  IF body.shape = "readfail" THEN "untouched"
  ELSE IF r.status < StatusOK \/ r.status >= StatusMultipleChoices THEN "untouched"
  ELSE IF ShouldUnmarshal(body, target) /\ Unmarshals(body, target) THEN "decoded"
  ELSE "untouched"

\* ------------------------------------------------- InventoryOptions
\* InventoryOptions.Validate: the error it returns
Validate(limit, offset) ==
  IF limit < 0 THEN PlainError("limit must be non-negative")
  ELSE IF limit > DefaultLimit THEN PlainError("limit must not exceed 500")
  ELSE IF offset < 0 THEN PlainError("offset must be non-negative")
  ELSE NoErr

\* InventoryOptions.Validate: opts.Limit after the call
ValidatedLimit(limit) ==
  IF limit = 0 THEN DefaultLimit ELSE limit

\* GetSellerInventory: the result returned with decode error e
WrapperResult_Partial(e) == "ptr"
WrapperResult(e) == IF e # NoErr THEN "nil" ELSE "ptr"

\* ------------------------------------------------------ concurrent callers
Calls == 1..NumCalls
\* a caller that is not inside a call
IdleCall == [pc |-> "idle", attempt |-> 0, backoff |-> 0, waitLeft |-> 0,
             sleepLeft |-> 0, cancelled |-> FALSE, waited |-> FALSE]
\* no decodeResponse call taken alone, and its missing result
NoDecode == [resp |-> NilResp, body |-> NoBody, v |-> "nil"]
NotDecoded == [done |-> FALSE, err |-> NoErr, v |-> "untouched"]
\* no endpoint wrapper called
NoWrapper == ""
\* doRequest: `c.doRequestWithBody(ctx, method, endpoint, params, nil, "")`
doRequest == [body |-> "nil", contentType |-> ""]
\* doJSONRequest: the payload, when it is not nil, encoded into a bytes.Buffer;
\* the content type is "application/json" either way
doJSONRequest(payload) ==
  [body |-> IF payload # "nil" THEN "buffer" ELSE "nil",
   contentType |-> "application/json"]
\* no request built yet
NoRequest == [body |-> "none", contentType |-> ""]
\* http.NewRequestWithContext and the headers: Content-Type is set when the
\* contentType argument is not empty ("" stands for no header)
NewRequest(e) ==
  [body |-> IF e.body = "nil" THEN "none" ELSE "full",
   contentType |-> IF e.contentType # "" THEN e.contentType ELSE ""]
\* what httpClient.Do(req) finds to transmit in req.Body: the one reader
\* given to http.NewRequestWithContext, which a former Do has read or not
Transmitted(r) ==
  IF r.body = "none" THEN "none" ELSE IF r.body = "full" THEN "bytes" ELSE "empty"
\* a request whose body yields fewer bytes than its ContentLength fails in
\* the transport ("http: ContentLength=N with Body length 0")
BodyShort(r) == r.body = "consumed"
\* req.Body after a Do with outcome o: read to its end when a response came
\* back, read or not when the transport failed
BodyAfter(r, o) ==
  IF r.body = "none" THEN {"none"}
  ELSE IF o # TransportFailure THEN {"consumed"}
  ELSE {r.body, "consumed"}
\* no Timestamp under way
NoTimestamp == [pc |-> "none"]
\* no page fetched yet
NoPage == [inventory |-> <<>>, returned |-> 0, total |-> 0]
\* no IterateInventory call under way
NotIterating ==
  /\ itPc = "idle"
  /\ itOffset = 0
  /\ itResp = NoPage
  /\ idx = 0
  /\ itErr = NoErr
  /\ requested = <<>>
  /\ fetched = <<>>
  /\ seen = <<>>
  /\ backend = [kind |-> "none", total |-> 0]
NoArgs == [ids |-> <<>>, items |-> 0, sku |-> 1]
\* the observer at the start: no caller let through yet
FreshWindow == [slack |-> Burst]

\* ------------------------------------------------------------------ Init
\* NewClient with WithRetry, WithBaseURL options applied; nothing called yet
Init ==
  /\ maxRetries \in -1..MaxRetriesBound
  /\ initialBackoff \in 0..MaxInitialBackoff
  /\ baseURLOk \in BOOLEAN
  /\ bucket = Burst
  /\ ctxCancelled = FALSE
  /\ pc = "idle"
  /\ optsLimit = 0
  /\ optsOffset = 0
  /\ attempt = 0
  /\ backoff = 0
  /\ resp = NilResp
  /\ retResp = NilResp
  /\ retErr = NoErr
  /\ result = "nil"
  /\ err = NoErr
  /\ attempts = 0
  /\ tokensAcquired = 0
  /\ sleeps = <<>>
  /\ outcomes = <<>>
  /\ respBody = NoBody
  /\ closes = <<>>
  /\ entry = doRequest
  /\ req = NoRequest
  /\ sent = <<>>
  /\ calls = [i \in Calls |-> IdleCall]
  /\ lastLeft = 0
  /\ window = FreshWindow
  /\ decIn = NoDecode
  /\ decOut = NotDecoded
  /\ ts = NoTimestamp
  /\ NotIterating
  /\ wrapper = NoWrapper
  /\ args = NoArgs

\* --------------------------------------------------------- environment
\* the caller cancels ctx
Cancel ==
  /\ ~ctxCancelled
  /\ ctxCancelled' = TRUE
  /\ UNCHANGED <<config, concVars, decodeVars, tsVars, iterVars, wrapVars, bucket, pc, optsLimit, optsOffset, locals, returned,
                 wrapperOut, history>>

\* time passes and the token bucket gains a token
Refill ==
  /\ bucket < Burst
  /\ bucket' = bucket + 1
  /\ UNCHANGED <<config, concVars, decodeVars, tsVars, iterVars, wrapVars, ctxCancelled, pc, optsLimit, optsOffset, locals,
                 returned, wrapperOut, history>>

\* another caller of the shared client takes a token
OtherAcquire ==
  /\ bucket > 0
  /\ bucket' = bucket - 1
  /\ UNCHANGED <<config, concVars, decodeVars, tsVars, iterVars, wrapVars, ctxCancelled, pc, optsLimit, optsOffset, locals,
                 returned, wrapperOut, history>>

\* ----------------------------------------------------------- the call
\* GetSellerInventory up to the call of doRequest
GetSellerInventory(limit, offset) ==
  /\ pc = "idle"
  /\ IF Validate(limit, offset) # NoErr
       THEN /\ result' = "nil"
            /\ err' = Validate(limit, offset)
            /\ pc' = "done"
            /\ UNCHANGED <<optsLimit, optsOffset>>
       ELSE /\ optsLimit' = ValidatedLimit(limit)
            /\ optsOffset' = offset
            /\ pc' = "wait"
            /\ UNCHANGED <<result, err>>
  /\ UNCHANGED <<config, concVars, decodeVars, tsVars, iterVars, wrapVars, bucket, ctxCancelled, locals, returned, respBody, history>>

\* doRequestWithBody from its entry to the head of the attempt loop:
\* rateLimiter.Wait, URL, http.NewRequestWithContext, headers
RateLimiterWait ==
  /\ pc = "wait"
  /\ IF LimiterWaitFailed(ctxCancelled)
       THEN /\ retResp' = NilResp
            /\ retErr' = NewNetworkError("rate limiter error", 0)
            /\ pc' = "ret"
            /\ UNCHANGED <<bucket, tokensAcquired, locals>>
       ELSE /\ bucket > 0
            /\ bucket' = bucket - 1
            /\ tokensAcquired' = tokensAcquired + 1
            /\ IF ~baseURLOk
                 THEN /\ retResp' = NilResp
                      /\ retErr' = NewNetworkError("failed to create request", 0)
                      /\ pc' = "ret"
                      /\ UNCHANGED locals
                 ELSE /\ req' = NewRequest(entry)
                      /\ attempt' = 0
                      /\ backoff' = initialBackoff
                      /\ resp' = NilResp
                      /\ pc' = "loop"
                      /\ UNCHANGED returned
  /\ UNCHANGED <<config, concVars, decodeVars, tsVars, iterVars, wrapVars, ctxCancelled, optsLimit, optsOffset, wrapperOut,
                 attempts, sleeps, outcomes, sent, closes>>

\* the loop condition; `return resp, nil` when it fails
LoopHead ==
  /\ pc = "loop"
  /\ IF LoopCond(attempt, maxRetries)
       THEN /\ pc' = "do"
            /\ UNCHANGED returned
       ELSE /\ retResp' = resp
            /\ retErr' = NoErr
            /\ pc' = "ret"
  /\ UNCHANGED <<config, concVars, decodeVars, tsVars, iterVars, wrapVars, bucket, ctxCancelled, optsLimit, optsOffset, locals,
                 wrapperOut, history>>

\* one httpClient.Do and the loop body's decision on its outcome o;
\* c: ctx is cancelled while the exchange is in flight
TransportDo(o, c) ==
  /\ pc = "do"
  /\ (ctxCancelled \/ c \/ BodyShort(req)) => o = TransportFailure
  /\ ctxCancelled' = (ctxCancelled \/ c)
  /\ attempts' = attempts + 1
  /\ outcomes' = Append(outcomes, o)
  /\ sent' = Append(sent, Transmitted(req))
  /\ \E b \in BodyAfter(req, o) : req' = [req EXCEPT !.body = b]
  /\ IF o = TransportFailure
       THEN /\ resp' = NilResp
            /\ UNCHANGED closes
            /\ IF CtxAborts(ctxCancelled')
                 THEN /\ retResp' = NilResp
                      /\ retErr' = NewNetworkError("request cancelled", 0)
                      /\ pc' = "ret"
                 ELSE IF RetryOnNetworkError(attempt, maxRetries)
                 THEN /\ pc' = "sleep"
                      /\ UNCHANGED returned
                 ELSE /\ retResp' = NilResp
                      /\ retErr' = NewNetworkError("request failed after retries", attempts')
                      /\ pc' = "ret"
       ELSE /\ resp' = Response(o, attempts')
            /\ IF StopLoop(o, attempt, maxRetries)
                 THEN /\ retResp' = resp'
                      /\ retErr' = NoErr
                      /\ pc' = "ret"
                      /\ UNCHANGED closes
                 ELSE /\ closes' = closes \o RetryCloses(resp'.id)
                      /\ pc' = "sleep"
                      /\ UNCHANGED returned
  /\ UNCHANGED <<config, concVars, decodeVars, tsVars, iterVars, wrapVars, bucket, optsLimit, optsOffset, attempt, backoff,
                 wrapperOut, tokensAcquired, sleeps>>

\* `time.Sleep(c.initialBackoff); c.initialBackoff *= 2`: the backoff kept in
\* the shared client instead of the local `backoff`
Sleep_SharedBackoff ==
  /\ pc = "sleep"
  /\ sleeps' = Append(sleeps, initialBackoff)
  /\ initialBackoff' = DoubleBackoff(initialBackoff)
  /\ attempt' = NextAttempt(attempt)
  /\ pc' = "loop"
  /\ UNCHANGED <<maxRetries, baseURLOk, backoff, concVars, decodeVars, tsVars, iterVars, wrapVars, bucket, ctxCancelled,
                 optsLimit, optsOffset, resp, req, returned, wrapperOut, attempts,
                 tokensAcquired, outcomes, sent, closes>>

\* `time.Sleep(backoff); backoff *= 2` and the for-post statement
Sleep ==
  /\ pc = "sleep"
  /\ sleeps' = Append(sleeps, backoff)
  /\ backoff' = DoubleBackoff(backoff)
  /\ attempt' = NextAttempt(attempt)
  /\ pc' = "loop"
  /\ UNCHANGED <<config, concVars, decodeVars, tsVars, iterVars, wrapVars, bucket, ctxCancelled, optsLimit, optsOffset, resp, req,
                 returned, wrapperOut, attempts, tokensAcquired, outcomes, sent,
                 closes>>

\* GetSellerInventory after doRequest returned: decodeResponse and return;
\* body: what reading the response body yields
GetSellerInventoryReturn(body) ==
  /\ pc = "ret"
  /\ IF retErr # NoErr
       THEN /\ result' = "nil"
            /\ err' = Wrapf(retErr)
            /\ pc' = "done"
            /\ UNCHANGED <<respBody, closes>>
       ELSE IF retResp = NilResp
       THEN \* decodeResponse dereferences a nil response
            /\ pc' = "panic"
            /\ UNCHANGED <<wrapperOut, closes>>
       ELSE /\ respBody' = body
            /\ closes' = closes \o DecodeCloses(retResp.id)
            /\ result' = WrapperResult(decodeResponse(retResp, body, "struct"))
            /\ err' = IF decodeResponse(retResp, body, "struct") # NoErr
                        THEN Wrapf(decodeResponse(retResp, body, "struct"))
                        ELSE NoErr
            /\ pc' = "done"
  /\ UNCHANGED <<config, concVars, decodeVars, tsVars, iterVars, wrapVars, bucket, ctxCancelled, optsLimit, optsOffset, locals,
                 returned, attempts, tokensAcquired, sleeps, outcomes, sent>>

\* limits and offsets a caller passes
Limits == {-1, 0, DefaultLimit, DefaultLimit + 1}
Offsets == {-1, 0}

Next ==
  \/ Cancel
  \/ Refill
  \/ OtherAcquire
  \/ \E limit \in Limits, offset \in Offsets : GetSellerInventory(limit, offset)
  \/ RateLimiterWait
  \/ LoopHead
  \/ \E o \in Outcomes, c \in BOOLEAN : TransportDo(o, c)
  \/ Sleep
  \/ \E body \in BodyKinds : GetSellerInventoryReturn(body)

Spec == Init /\ [][Next]_vars

\* ---------------------------------------------------------------- claims
\* the call has returned from doRequestWithBody
Returned == pc \in {"ret", "done", "panic"}
\* every httpClient.Do made so far had outcome o
AllOutcomes(o) == \A i \in 1..Len(outcomes) : outcomes[i] = o
\* 2 to the power k
RECURSIVE Pow2(_)
Pow2(k) == IF k <= 0 THEN 1 ELSE 2 * Pow2(k - 1)
\* the body of the final response was read in full
BodyRead == respBody \in {EmptyBody, ObjectBody, Malformed}

\* C1: with maxRetries = n >= 0, a logical request never performs more than
\* n+1 transport attempts, whatever the attempts' outcomes are.
C1_AtMostNPlus1Attempts ==
  maxRetries >= 0 => attempts <= maxRetries + 1

\* C1 witness: a finished request that used all n+1 attempts, n >= 2, on a
\* mix of transport failures and 5xx responses.
C1_Witness ==
  /\ Returned
  /\ maxRetries >= 2
  /\ attempts = maxRetries + 1
  /\ \E i, j \in 1..Len(outcomes) :
       outcomes[i] = TransportFailure /\ outcomes[j] >= StatusInternalServerError

\* C2: with maxRetries = n, when every attempt of a request that reached the
\* backend is answered with status 500, the request makes exactly n+1 attempts, the
\* executor returns the response of the last attempt with a nil error, and
\* the caller gets one APIError of the server-error class and no result
\* (the body of the final response being readable).
C2_Always500 ==
  (Returned /\ outcomes # <<>> /\ AllOutcomes(StatusInternalServerError)) =>
     /\ attempts = maxRetries + 1
     /\ retErr = NoErr
     /\ retResp = Response(StatusInternalServerError, maxRetries + 1)
     /\ pc # "panic"
     /\ (pc = "done" /\ BodyRead) =>
          /\ IsServerError(err)
          /\ err.status = StatusInternalServerError
          /\ result = "nil"

\* C2 witness: a call that ended after n+1 >= 3 attempts, all answered 500.
C2_Witness ==
  /\ pc = "done"
  /\ maxRetries >= 2
  /\ attempts = maxRetries + 1
  /\ AllOutcomes(StatusInternalServerError)
  /\ IsServerError(err)

\* the first k attempts were answered 500 and attempt k+1 was answered 200
FirstK500Then200(k) ==
  /\ Len(outcomes) >= k + 1
  /\ \A i \in 1..k : outcomes[i] = StatusInternalServerError
  /\ outcomes[k + 1] = StatusOK

\* C3: with maxRetries = n and k < n, when the first k attempts are answered
\* 500 and the next 200, the request makes exactly k+1 attempts, the executor
\* returns the 200 response with no error, and the caller gets a result and
\* no error (the body being readable, well-formed JSON or empty).
C3_Retry500Then200 ==
  \A k \in 0..(maxRetries - 1) :
    FirstK500Then200(k) =>
      /\ attempts = k + 1
      /\ Returned
      /\ retErr = NoErr
      /\ retResp = Response(StatusOK, k + 1)
      /\ pc # "panic"
      /\ (pc = "done" /\ respBody \in {EmptyBody, ObjectBody}) =>
           (err = NoErr /\ result = "ptr")

\* C3 witness: two 500s, then 200, decoded without error.
C3_Witness ==
  /\ pc = "done"
  /\ maxRetries >= 3
  /\ outcomes = <<StatusInternalServerError, StatusInternalServerError, StatusOK>>
  /\ err = NoErr
  /\ result = "ptr"

\* C4: a response with status below 500 ends the attempt loop at once: it is
\* the last attempt, it is returned with a nil error, and no backoff sleep
\* follows it (every sleep precedes it); a 400 or 404 on the first attempt
\* means exactly one attempt, and a decoded 404 is IsNotFound.
C4_Below500NotRetried ==
  /\ \A i \in 1..Len(outcomes) :
       (outcomes[i] \in Statuses /\ outcomes[i] < StatusInternalServerError) =>
          /\ i = Len(outcomes)
          /\ attempts = i
          /\ Len(sleeps) = i - 1
          /\ pc \in {"ret", "done"}
          /\ retErr = NoErr
          /\ retResp = Response(outcomes[i], i)
  /\ (outcomes # <<>> /\ outcomes[1] \in {400, 404}) => attempts = 1
  /\ (pc = "done" /\ retResp.status = StatusNotFound /\ BodyRead) =>
       (IsNotFound(err) /\ result = "nil")

\* C4 witness: a 404 on the first attempt of a client with retries left,
\* decoded into a not-found APIError.
C4_Witness ==
  /\ pc = "done"
  /\ maxRetries >= 1
  /\ outcomes = <<StatusNotFound>>
  /\ sleeps = <<>>
  /\ IsNotFound(err)

\* C5: every transport attempt has a rate-limiter token acquired for it: the
\* number of attempts never exceeds the number of tokens acquired, and a
\* finished request that made m attempts acquired exactly m tokens.
C5_TokenPerAttempt ==
  /\ attempts <= tokensAcquired
  /\ (Returned /\ attempts > 0) => tokensAcquired = attempts

\* C6: the j-th backoff sleep of a request lasts initialBackoff * 2^(j-1),
\* whichever kind of retryable failure precedes it; every sleep follows an
\* attempt, and none follows the final attempt.
C6_BackoffDoubles ==
  /\ \A j \in 1..Len(sleeps) : sleeps[j] = initialBackoff * Pow2(j - 1)
  /\ Len(sleeps) <= attempts
  /\ pc \in {"loop", "do"} => Len(sleeps) = attempts
  /\ (Returned /\ attempts > 0) => Len(sleeps) = attempts - 1
  /\ \A j \in 1..Len(sleeps) :
       outcomes[j] = TransportFailure \/ outcomes[j] >= StatusInternalServerError

\* C6 witness: three sleeps of a positive initial backoff, after a transport
\* failure, a 5xx and a transport failure.
C6_Witness ==
  /\ Returned
  /\ initialBackoff > 0
  /\ Len(sleeps) = 3
  /\ sleeps[3] = 4 * initialBackoff
  /\ outcomes[1] = TransportFailure
  /\ outcomes[2] >= StatusInternalServerError
  /\ outcomes[3] = TransportFailure

\* doRequestWithBody was entered and has returned to the wrapper
ExecutorReturned == pc = "ret" \/ (pc = "done" /\ (retErr # NoErr \/ retResp # NilResp))

\* C7: when ctx is cancelled and the limiter has granted no token, the
\* request makes no HTTP attempt and returns a NetworkError and no response:
\* a cancelled call leaves rateLimiter.Wait only by that return, without a
\* token.
C7_CancelledBeforeToken ==
  /\ []((ctxCancelled /\ tokensAcquired = 0) =>
          /\ attempts = 0
          /\ pc \notin {"loop", "do", "sleep", "panic"}
          /\ ExecutorReturned => (retErr.kind = "NetworkError" /\ retResp = NilResp)
          /\ (pc = "done" /\ ExecutorReturned) => (err.kind = "NetworkError" /\ result = "nil"))
  /\ [][(pc = "wait" /\ ctxCancelled /\ pc' # "wait") =>
          /\ pc' = "ret"
          /\ retErr'.kind = "NetworkError"
          /\ retResp' = NilResp
          /\ tokensAcquired' = tokensAcquired
          /\ attempts' = 0]_vars

\* C7 witness: the caller got the limiter's cancellation as a NetworkError.
C7_Witness ==
  /\ pc = "done"
  /\ ctxCancelled
  /\ tokensAcquired = 0
  /\ attempts = 0
  /\ err.kind = "NetworkError"
  /\ err.msg = "rate limiter error"

\* C8: a transport failure met with a cancelled ctx ends the request at once
\* with a NetworkError, without a sleep, however many retries remain; and a
\* request that has returned makes no further attempt and no further sleep.
C8_CancelAborts ==
  [][ /\ (/\ pc = "do"
          /\ attempts' = attempts + 1
          /\ outcomes'[attempts'] = TransportFailure
          /\ ctxCancelled')
         => /\ pc' = "ret"
            /\ retErr' = NewNetworkError("request cancelled", 0)
            /\ retResp' = NilResp
            /\ sleeps' = sleeps
      /\ Returned => (Returned' /\ attempts' = attempts /\ sleeps' = sleeps) ]_vars

\* C8 witness: a request aborted by cancellation on its first attempt with
\* retries remaining.
C8_Witness ==
  /\ pc = "done"
  /\ maxRetries >= 2
  /\ attempts = 1
  /\ sleeps = <<>>
  /\ err = Wrapf(NewNetworkError("request cancelled", 0))

\* C9: with maxRetries = n, ctx not cancelled and every attempt made so far
\* having failed at the transport level, the request keeps retrying
\* while fewer than n+1 attempts were made, and after attempt n+1 returns a
\* NetworkError wrapping the error of attempt n+1, with no response.
C9_TransportAlwaysFails ==
  (~ctxCancelled /\ outcomes # <<>> /\ AllOutcomes(TransportFailure)) =>
     /\ attempts <= maxRetries + 1
     /\ attempts < maxRetries + 1 => pc \in {"sleep", "loop", "do"}
     /\ attempts = maxRetries + 1 =>
          /\ pc \in {"ret", "done"}
          /\ retErr = NewNetworkError("request failed after retries", maxRetries + 1)
          /\ retResp = NilResp
     /\ pc = "done" => (err.kind = "NetworkError" /\ result = "nil")

\* C9 witness: n+1 >= 3 failed attempts, then the NetworkError of the last.
C9_Witness ==
  /\ pc = "done"
  /\ ~ctxCancelled
  /\ maxRetries >= 2
  /\ attempts = maxRetries + 1
  /\ AllOutcomes(TransportFailure)
  /\ err.kind = "NetworkError"
  /\ err.cause = attempts

\* C10: a non-nil error is never accompanied by a response or result: when
\* doRequestWithBody returns an error its response is nil, and when the
\* wrapper returns an error its result is nil.
C10_ErrorXorResult ==
  /\ (Returned /\ retErr # NoErr) => retResp = NilResp
  /\ (pc = "done" /\ err # NoErr) => result = "nil"
  /\ (pc = "done" /\ err = NoErr) => result = "ptr"

\* C10 witness: a 200 response whose body is malformed JSON: the wrapper
\* returns the decode error and a nil result.
C10_Witness ==
  /\ pc = "done"
  /\ retResp.status = StatusOK
  /\ respBody = Malformed
  /\ err.kind = "error"
  /\ result = "nil"

\* number of times the body of the response of attempt id was closed
CloseCount(id) == Cardinality({k \in 1..Len(closes) : closes[k] = id})

\* C11: the body of every response obtained during a call is closed exactly
\* once: never twice; a 5xx response that is retried away is closed before
\* the sleep and the next attempt; the returned response is still open when
\* doRequestWithBody returns and is closed by decodeResponse, also when
\* reading the body fails; a failed attempt has no body to close.
C11_BodyClosedOnce ==
  /\ \A k \in 1..Len(closes) : closes[k] \in 1..Len(outcomes)
  /\ \A i \in 1..Len(outcomes) :
       /\ CloseCount(i) <= 1
       /\ outcomes[i] = TransportFailure => CloseCount(i) = 0
       /\ (outcomes[i] # TransportFailure /\ (i < Len(outcomes) \/ pc \in {"sleep", "loop", "do"}))
            => CloseCount(i) = 1
       /\ (outcomes[i] # TransportFailure /\ pc = "done") => CloseCount(i) = 1
  /\ (pc = "ret" /\ retResp # NilResp) => CloseCount(retResp.id) = 0

\* C11 witness: two 5xx responses retried away and a final response whose
\* body could not be read: three bodies, each closed once.
C11_Witness ==
  /\ pc = "done"
  /\ Len(outcomes) = 3
  /\ \A i \in 1..3 : outcomes[i] # TransportFailure
  /\ respBody = ReadFailure
  /\ closes = <<1, 2, 3>>

\* ======================================================================
\* Concurrent callers of one shared client.  Time is counted in ticks of
\* 1/R seconds, R the limiter's rate: one token is added per tick.
\* ======================================================================
\* smaller and larger of two integers
Min(a, b) == IF a < b THEN a ELSE b
Max(a, b) == IF a > b THEN a ELSE b

\* `c.rateLimiter.Wait(ctx)` is WaitN(ctx, 1): tokens taken per logical call
TokensPerCall_None == 1 - 1
TokensPerCall_OverBurst == Burst + 1
TokensPerCall == 1

\* the ticks a reservation waits that leaves `left` tokens in the bucket
ReserveWait(left) == IF left < 0 THEN -left ELSE 0

\* the observer after k more callers were let through by the limiter
Granted(w, k) ==
  [w EXCEPT !.slack = @ - k]

\* outcomes of an attempt of a concurrent caller
ConcOutcomes == {TransportFailure, StatusOK, StatusInternalServerError}

\* the caller is at `c.httpClient.Do(req)`; nothing but its own position decides it
MayAttempt_Serialized(i) ==
  calls[i].pc = "do" /\ \A j \in Calls \ {i} : calls[j].pc # "sleep"
MayAttempt(i) == calls[i].pc = "do"

\* NewClient; every caller idle, the bucket full
InitConc ==
  /\ maxRetries = ConcMaxRetries
  /\ initialBackoff = 1
  /\ baseURLOk = TRUE
  /\ bucket = Burst
  /\ ctxCancelled = FALSE
  /\ pc = "idle"
  /\ optsLimit = 0
  /\ optsOffset = 0
  /\ attempt = 0
  /\ backoff = 0
  /\ resp = NilResp
  /\ retResp = NilResp
  /\ retErr = NoErr
  /\ result = "nil"
  /\ err = NoErr
  /\ attempts = 0
  /\ tokensAcquired = 0
  /\ sleeps = <<>>
  /\ outcomes = <<>>
  /\ respBody = NoBody
  /\ closes = <<>>
  /\ entry = doRequest
  /\ req = NoRequest
  /\ sent = <<>>
  /\ calls = [i \in Calls |-> IdleCall]
  /\ lastLeft = 0
  /\ window = FreshWindow
  /\ decIn = NoDecode
  /\ decOut = NotDecoded
  /\ ts = NoTimestamp
  /\ NotIterating
  /\ wrapper = NoWrapper
  /\ args = NoArgs

\* caller i enters doRequestWithBody: rateLimiter.Wait checks ctx and
\* reserves its token
CWaitEnter(i) ==
  /\ calls[i].pc = "idle"
  /\ ReserveWait(bucket - TokensPerCall) <= MaxWait
  /\ IF LimiterWaitFailed(calls[i].cancelled) \/ TokensPerCall > Burst
       THEN /\ calls' = [calls EXCEPT ![i].pc = "failed"]
            /\ UNCHANGED <<bucket, lastLeft, window>>
       ELSE /\ bucket' = bucket - TokensPerCall
            /\ lastLeft' = ReserveWait(bucket')
            /\ calls' = [calls EXCEPT ![i].pc = "wait",
                                      ![i].waitLeft = ReserveWait(bucket'),
                                      ![i].waited = ReserveWait(bucket') > 0]
            /\ window' = IF ReserveWait(bucket') = 0 THEN Granted(window, 1) ELSE window
  /\ UNCHANGED <<config, callVars, decodeVars, tsVars, iterVars, wrapVars>>

\* the reserved slot of caller i has come: Wait returns nil and the attempt
\* loop starts
CWaitGranted(i) ==
  /\ calls[i].pc = "wait"
  /\ calls[i].waitLeft = 0
  /\ calls' = [calls EXCEPT ![i].pc = IF LoopCond(0, maxRetries) THEN "do" ELSE "done",
                            ![i].attempt = 0,
                            ![i].backoff = initialBackoff]
  /\ UNCHANGED <<config, callVars, decodeVars, tsVars, iterVars, wrapVars, bucket, lastLeft, window>>

\* ctx of caller i is cancelled while it waits for its slot: Wait gives the
\* reservation back (as far as no later reservation was built on it) and
\* returns the error
CWaitCancelled(i) ==
  /\ calls[i].pc = "wait"
  /\ calls[i].cancelled
  /\ calls[i].waitLeft > 0
  /\ LET restore == TokensPerCall - (lastLeft - calls[i].waitLeft) IN
       /\ bucket' = IF restore > 0 THEN Min(Burst, bucket + restore) ELSE bucket
       /\ lastLeft' = IF restore > 0 /\ lastLeft - TokensPerCall >= 0
                        THEN lastLeft - TokensPerCall ELSE lastLeft
  /\ calls' = [calls EXCEPT ![i].pc = "failed", ![i].waitLeft = 0,
                            ![i].waited = FALSE]
  /\ UNCHANGED <<config, callVars, decodeVars, tsVars, iterVars, wrapVars, window>>

\* one httpClient.Do of caller i with outcome o, and the loop body's decision
CDo(i, o) ==
  /\ MayAttempt(i)
  /\ calls[i].cancelled => o = TransportFailure
  /\ LET sleeping == [calls[i] EXCEPT !.pc = "sleep", !.sleepLeft = calls[i].backoff,
                                      !.waited = FALSE]
         failed == [calls[i] EXCEPT !.pc = "failed", !.waited = FALSE]
         done == [calls[i] EXCEPT !.pc = "done", !.waited = FALSE]
     IN calls' = [calls EXCEPT ![i] =
          IF o = TransportFailure
            THEN IF CtxAborts(calls[i].cancelled) THEN failed
                 ELSE IF RetryOnNetworkError(calls[i].attempt, maxRetries) THEN sleeping
                 ELSE failed
            ELSE IF StopLoop(o, calls[i].attempt, maxRetries) THEN done
                 ELSE sleeping]
  /\ UNCHANGED <<config, callVars, decodeVars, tsVars, iterVars, wrapVars, bucket, lastLeft, window>>

\* time.Sleep(backoff) of caller i is over: `backoff *= 2`, `attempt++`, loop condition
CWake(i) ==
  /\ calls[i].pc = "sleep"
  /\ calls[i].sleepLeft = 0
  /\ calls' = [calls EXCEPT
       ![i].backoff = DoubleBackoff(calls[i].backoff),
       ![i].attempt = NextAttempt(calls[i].attempt),
       ![i].pc = IF LoopCond(NextAttempt(calls[i].attempt), maxRetries) THEN "do" ELSE "done"]
  /\ UNCHANGED <<config, callVars, decodeVars, tsVars, iterVars, wrapVars, bucket, lastLeft, window>>

\* the ctx of caller i is cancelled
CCancel(i) ==
  /\ calls[i].pc \in {"idle", "wait", "do", "sleep"}
  /\ ~calls[i].cancelled
  /\ calls' = [calls EXCEPT ![i].cancelled = TRUE]
  /\ UNCHANGED <<config, callVars, decodeVars, tsVars, iterVars, wrapVars, bucket, lastLeft, window>>

\* the call of caller i has returned; the caller may call again with a new ctx
CReturn(i) ==
  /\ calls[i].pc \in {"done", "failed"}
  /\ calls' = [calls EXCEPT ![i] = IdleCall]
  /\ UNCHANGED <<config, callVars, decodeVars, tsVars, iterVars, wrapVars, bucket, lastLeft, window>>

\* one tick passes: the bucket gains a token up to its burst, slots and
\* sleeps come one tick closer; callers whose slot comes are let through;
\* a window that starts now has the whole burst as slack
Tick ==
  /\ bucket' = Min(Burst, bucket + 1)
  /\ lastLeft' = Max(0, lastLeft - 1)
  /\ calls' = [i \in Calls |->
       [calls[i] EXCEPT !.waitLeft = Max(0, @ - 1), !.sleepLeft = Max(0, @ - 1)]]
  /\ window' = Granted([window EXCEPT !.slack = Min(Burst, @ + 1)],
                 Cardinality({i \in Calls : calls[i].pc = "wait" /\ calls[i].waitLeft = 1}))
  /\ UNCHANGED <<config, callVars, decodeVars, tsVars, iterVars, wrapVars>>

NextConc ==
  \/ \E i \in Calls : CWaitEnter(i)
  \/ \E i \in Calls : CWaitGranted(i)
  \/ \E i \in Calls : CWaitCancelled(i)
  \/ \E i \in Calls, o \in ConcOutcomes : CDo(i, o)
  \/ \E i \in Calls : CWake(i)
  \/ \E i \in Calls : CCancel(i)
  \/ \E i \in Calls : CReturn(i)
  \/ Tick

SpecConc == InitConc /\ [][NextConc]_vars

\* the scheduler runs a caller whose slot has come, and time passes
FairSpecConc ==
  /\ SpecConc
  /\ WF_vars(Tick)
  /\ \A i \in Calls : WF_vars(CWaitGranted(i))

\* C12: in any window of t ticks (t/R seconds) the limiter lets through at
\* most B + t callers (B + R*t), whatever the callers do concurrently; so N
\* calls need at least N - B ticks ((N-B)/R seconds).  window.slack is the
\* least, over all instants s up to now, of B + (now - s) minus the number of
\* callers let through since s: it is never negative.
C12_RateBound == window.slack >= 0

\* C12 witness: a window is used up to its bound by callers of whom one
\* found the bucket empty, waited for its slot and was let through.
C12_Witness ==
  /\ window.slack = 0
  /\ \E i \in Calls, j \in Calls :
       /\ i # j
       /\ calls[i].pc = "do"
       /\ calls[i].waited
       /\ calls[j].pc \in {"do", "sleep", "done"}

\* caller i has passed the limiter
Acquired(i) == calls[i].pc \in {"do", "sleep", "done"}

\* C13: no waiter starves.  While the bucket refills, every caller waiting in
\* rateLimiter.Wait either is let through or has had its ctx cancelled, however
\* many other callers arrive; and Wait fails for no caller whose ctx is live.
C13_NoStarvation ==
  /\ \A i \in Calls :
       (calls[i].pc = "wait") ~> (Acquired(i) \/ calls[i].cancelled)
  /\ [][\A i \in Calls :
          (calls[i].pc \in {"idle", "wait"} /\ calls'[i].pc = "failed")
            => calls[i].cancelled]_vars

\* C13 witness: a caller that found the bucket empty and had to wait, with a
\* live ctx, has passed the limiter while another caller is still waiting.
C13_Witness ==
  \E i \in Calls, j \in Calls :
    /\ i # j
    /\ calls[i].waited
    /\ ~calls[i].cancelled
    /\ calls[i].pc = "do"
    /\ calls[j].pc = "wait"
    /\ calls[j].waitLeft > 0

\* what caller i's own code has decided so far
Progress(c) == <<c.pc, c.attempt, c.backoff, c.cancelled>>

\* the next step of caller j's own code can be taken now
CanStep(j) ==
  /\ calls[j].pc = "idle" /\ ReserveWait(bucket - TokensPerCall) <= MaxWait
       => ENABLED CWaitEnter(j)
  /\ calls[j].pc = "wait" /\ calls[j].waitLeft = 0 => ENABLED CWaitGranted(j)
  /\ calls[j].pc = "do" => ENABLED (\E o \in ConcOutcomes : CDo(j, o))
  /\ calls[j].pc = "sleep" /\ calls[j].sleepLeft = 0 => ENABLED CWake(j)
  /\ calls[j].pc \in {"done", "failed"} => ENABLED CReturn(j)

\* C14: a backoff sleep blocks only its own call.  While caller i sleeps
\* between retries every other caller can take its next step (enter the
\* limiter, be let through, make an attempt, wake, return); no step moves two
\* callers at once; and a caller past the limiter changes nothing shared, so
\* callers meet only in the bucket's token count.
C14_SleepBlocksOnlyItsCall ==
  /\ [](\A i \in Calls : calls[i].pc = "sleep" =>
          \A j \in Calls \ {i} : CanStep(j))
  /\ [][Cardinality({i \in Calls : Progress(calls'[i]) # Progress(calls[i])}) <= 1]_vars
  /\ [][\A i \in Calls :
          (calls[i].pc \in {"do", "sleep"} /\ Progress(calls'[i]) # Progress(calls[i]))
            => (bucket' = bucket /\ lastLeft' = lastLeft)]_vars

\* C14 witness: caller i has not slept any of its backoff yet and another
\* caller has already completed its call.
C14_Witness ==
  \E i \in Calls, j \in Calls :
    /\ i # j
    /\ calls[i].pc = "sleep"
    /\ calls[i].sleepLeft = calls[i].backoff
    /\ calls[i].sleepLeft > 0
    /\ calls[j].pc = "done"

\* C15: the Client is read-only after NewClient.  No step of the request
\* pipeline (wrapper, limiter wait, attempt loop, sleep, decode) changes
\* maxRetries, initialBackoff or baseURL; of what callers share only the
\* limiter's token count changes.
C15_ClientImmutable == [][config' = config]_vars

\* C15 witness: a call has run through retries and sleeps to its end and has
\* taken its token from the shared bucket.
C15_Witness ==
  /\ pc = "done"
  /\ attempts >= 2
  /\ Len(sleeps) >= 1
  /\ bucket < Burst
  /\ tokensAcquired = 1

\* ======================================================================
\* decodeResponse taken alone, on every response, body and target
\* ======================================================================
\* statuses around the edges of the success range [200, 300), and errors
DecodeStatuses == {199, 200, 204, 299, 300, 401, 404, 500}

\* a client at rest: nothing called yet
AtRest ==
  /\ maxRetries = MaxRetriesBound
  /\ initialBackoff = 1
  /\ baseURLOk = TRUE
  /\ bucket = Burst
  /\ ctxCancelled = FALSE
  /\ pc = "idle"
  /\ optsLimit = 0
  /\ optsOffset = 0
  /\ attempt = 0
  /\ backoff = 0
  /\ resp = NilResp
  /\ retResp = NilResp
  /\ retErr = NoErr
  /\ result = "nil"
  /\ err = NoErr
  /\ attempts = 0
  /\ tokensAcquired = 0
  /\ sleeps = <<>>
  /\ outcomes = <<>>
  /\ respBody = NoBody
  /\ closes = <<>>
  /\ entry = doRequest
  /\ req = NoRequest
  /\ sent = <<>>
  /\ calls = [i \in Calls |-> IdleCall]
  /\ lastLeft = 0
  /\ window = FreshWindow

\* a response, the body its reader yields and a target, about to be decoded
InitDecode ==
  /\ AtRest
  /\ decIn \in [resp : {Response(st, 1) : st \in DecodeStatuses},
                body : Bodies,
                v : Targets]
  /\ decOut = NotDecoded
  /\ ts = NoTimestamp
  /\ NotIterating
  /\ wrapper = NoWrapper
  /\ args = NoArgs

\* decodeResponse(resp, v)
Decode ==
  /\ ~decOut.done
  /\ decOut' = [done |-> TRUE,
                err |-> decodeResponse(decIn.resp, decIn.body, decIn.v),
                v |-> targetAfter(decIn.resp, decIn.body, decIn.v)]
  /\ closes' = closes \o DecodeCloses(decIn.resp.id)
  /\ UNCHANGED <<config, concVars, wrapVars, tsVars, iterVars, decIn, bucket, ctxCancelled, pc, optsLimit,
                 optsOffset, locals, returned, wrapperOut, attempts, tokensAcquired,
                 sleeps, outcomes, sent>>

NextDecode == Decode

SpecDecode == InitDecode /\ [][NextDecode]_vars

\* the status lies in the success range [200, 300)
Success(st) == st >= 200 /\ st < 300
\* the body is well-formed JSON
WellFormed(b) == b.shape \in {"object", "array"}
\* the body is JSON of a type the target can hold
Fits(b, v) == b.shape = "object" \/ (b.shape = "array" /\ v = "any")
\* the error is a plain one: not of the API, network or validation kind
PlainDecodeError(e) == e.kind = "error"

\* C16 as stated: read failure gives a network error; else a status outside
\* [200,300) gives an API error with that status; else a nil target or an
\* empty body gives nil; else valid JSON gives nil and malformed JSON a plain
\* decode error; a status in [200,300) never gives an API error.
C16_OutcomeKinds ==
  decOut.done =>
    /\ decIn.body.shape = "readfail" => decOut.err.kind = "NetworkError"
    /\ (decIn.body.shape # "readfail" /\ ~Success(decIn.resp.status)) =>
         (decOut.err.kind = "APIError" /\ decOut.err.status = decIn.resp.status)
    /\ (decIn.body.shape # "readfail" /\ Success(decIn.resp.status)) =>
         IF decIn.v = "nil" \/ decIn.body.shape = "empty" THEN decOut.err = NoErr
         ELSE IF WellFormed(decIn.body) THEN decOut.err = NoErr
         ELSE PlainDecodeError(decOut.err)
    /\ Success(decIn.resp.status) => decOut.err.kind # "APIError"

\* C16 amended: as C16, but on a success status with a non-nil target and a
\* non-empty body the result is nil exactly when the body is JSON of a type
\* the target can hold; a body json.Unmarshal rejects, malformed or
\* well-formed of another type (an array for a struct), gives the plain
\* decode error.
C16_OutcomeKindsAmended ==
  decOut.done =>
    /\ decIn.body.shape = "readfail" => decOut.err.kind = "NetworkError"
    /\ (decIn.body.shape # "readfail" /\ ~Success(decIn.resp.status)) =>
         (decOut.err.kind = "APIError" /\ decOut.err.status = decIn.resp.status)
    /\ (decIn.body.shape # "readfail" /\ Success(decIn.resp.status)) =>
         IF decIn.v = "nil" \/ decIn.body.shape = "empty" THEN decOut.err = NoErr
         ELSE IF Fits(decIn.body, decIn.v) THEN decOut.err = NoErr
         ELSE PlainDecodeError(decOut.err)
    /\ Success(decIn.resp.status) => decOut.err.kind # "APIError"

\* C16 witness: a 200 response whose body is a JSON array, decoded into a
\* struct: well-formed JSON, and a plain decode error.
C16_Witness ==
  /\ decOut.done
  /\ decIn.resp.status = StatusOK
  /\ decIn.body = ArrayBody
  /\ decIn.v = "struct"
  /\ PlainDecodeError(decOut.err)

\* the body is a JSON object with a non-empty string member `error`
HasErrorString(b) == b.shape = "object" /\ b.error.k = "string" /\ b.error.s # ""
\* the body is a JSON object with a non-empty string member `message`
HasMessageString(b) == b.shape = "object" /\ b.message.k = "string" /\ b.message.s # ""

C18_EmptyBodyOrNilTarget ==
  (decOut.done /\ Success(decIn.resp.status)) =>
    /\ (decIn.body = EmptyBody /\ decIn.v # "nil") =>
         (decOut.err = NoErr /\ decOut.v = "untouched")
    /\ (decIn.v = "nil" /\ decIn.body.shape # "readfail") =>
         (decOut.err = NoErr /\ decOut.v = "untouched")

\* C18 witness: 204 with an empty body decoded into a struct.
C18_Witness ==
  /\ decOut.done
  /\ decIn.resp.status = 204
  /\ decIn.body = EmptyBody
  /\ decIn.v = "struct"
  /\ decOut.err = NoErr
  /\ decOut.v = "untouched"

\* ======================================================================
\* The endpoint wrappers that take identifiers or item lists
\* ======================================================================
\* wrappers with one string identifier parameter
OneID ==
  {"GetOrder", "UpdateOrderFulfillment", "GetSellerOrder",
   "UpdateSellerOrderFulfillment", "GetSellerOrderReports", "GetWebhook",
   "DeleteWebhook", "GetInventoryListing", "GetInventoryByTCGPlayerID",
   "GetSellerInventoryByScryfall", "UpdateSellerInventoryByScryfall",
   "DeleteSellerInventoryByScryfall", "GetBuyerOrder", "GetPendingOrder",
   "UpdatePendingOrder", "PurchasePendingOrder"}
\* wrappers with two: productType and productID
TwoIDs ==
  {"GetSellerInventoryByProduct", "UpdateSellerInventoryByProduct",
   "DeleteSellerInventoryByProduct"}
\* wrappers that post a list of items
BulkCreate ==
  {"CreateInventoryBulk", "CreateInventoryBulkBySKU", "CreateInventoryBulkByProduct",
   "CreateInventoryBulkByScryfall", "CreateInventoryBulkByTCGPlayerID"}
\* wrappers that take `sku int` and format it into the endpoint
BySKU ==
  {"GetInventoryBySKU", "UpdateInventoryBySKU", "DeleteInventoryBySKU",
   "GetSellerInventoryBySKU", "UpdateSellerInventoryBySKU",
   "DeleteSellerInventoryBySKU"}
\* a wrapper whose only string parameter is an optional filter
Unchecked == {"GetWebhooks"}
Wrappers == OneID \cup TwoIDs \cup BulkCreate \cup BySKU \cup Unchecked

\* the number of string identifiers in the wrapper's signature
StringIDs(w) == IF w \in TwoIDs THEN 2 ELSE IF w \in OneID THEN 1 ELSE 0

\* the wrapper begins with `if id == "" { return nil, NewValidationError(...) }`
ChecksIDs_NotDeleteWebhook(w) == w \in (OneID \cup TwoIDs) \ {"DeleteWebhook"}
ChecksIDs(w) == w \in OneID \cup TwoIDs

\* wrappers that pass a payload to doJSONRequest; the others call doRequest
PostsJSON ==
  BulkCreate \cup
  {"UpdateOrderFulfillment", "UpdateSellerOrderFulfillment", "UpdateInventoryBySKU",
   "UpdateSellerInventoryBySKU", "UpdateSellerInventoryByProduct",
   "UpdateSellerInventoryByScryfall", "UpdatePendingOrder", "PurchasePendingOrder"}
\* the arguments wrapper w gives to doRequestWithBody
EntryOf(w) == IF w \in PostsJSON THEN doJSONRequest("value") ELSE doRequest

\* the wrapper checks `len(items) == 0` before doJSONRequest: none does
ChecksItems(w) == w \in {}

\* the wrapper checks `sku <= 0` before doRequest: none does
ChecksSKU(w) == w \in {}

\* the error of the wrapper's checks of its arguments, NoErr when they pass
ArgsError(w, a) ==
  IF ChecksIDs(w) /\ \E k \in 1..Len(a.ids) : a.ids[k] = ""
    THEN NewValidationError("id")
  ELSE IF ChecksItems(w) /\ a.items = 0
    THEN NewValidationError("items")
  ELSE IF ChecksSKU(w) /\ a.sku <= 0
    THEN NewValidationError("sku")
  ELSE NoErr

\* the v the wrapper passes to decodeResponse
TargetOf(w) == IF w = "DeleteWebhook" THEN "nil" ELSE "struct"

\* identifiers a caller passes
IDs == {"", "id1"}
\* SKUs a caller passes
SKUs == {-1, 0, 1}
\* the argument lists a caller can pass to wrapper w
ArgsOf(w) ==
  [ids : [1..StringIDs(w) -> IDs],
   items : IF w \in BulkCreate THEN 0..MaxItems ELSE {0},
   sku : IF w \in BySKU THEN SKUs ELSE {1}]

InitWrappers ==
  /\ AtRest
  /\ decIn = NoDecode
  /\ decOut = NotDecoded
  /\ ts = NoTimestamp
  /\ NotIterating
  /\ wrapper = NoWrapper
  /\ args = NoArgs

\* wrapper w up to its call of doRequest or doJSONRequest
CallWrapper(w, a) ==
  /\ pc = "idle"
  /\ wrapper = NoWrapper
  /\ wrapper' = w
  /\ args' = a
  /\ entry' = EntryOf(w)
  /\ IF ArgsError(w, a) # NoErr
       THEN /\ result' = "nil"
            /\ err' = ArgsError(w, a)
            /\ pc' = "done"
       ELSE /\ pc' = "wait"
            /\ UNCHANGED <<result, err>>
  /\ UNCHANGED <<config, concVars, decodeVars, tsVars, iterVars, bucket, ctxCancelled, optsLimit,
                 optsOffset, locals, returned, respBody, history>>

\* the wrapper after doRequest returned: decodeResponse and return;
\* DeleteWebhook returns decodeResponse's error as it is
WrapperReturn(body) ==
  /\ pc = "ret"
  /\ wrapper # NoWrapper
  /\ IF retErr # NoErr
       THEN /\ result' = "nil"
            /\ err' = Wrapf(retErr)
            /\ pc' = "done"
            /\ UNCHANGED <<respBody, closes>>
       ELSE IF retResp = NilResp
       THEN /\ pc' = "panic"
            /\ UNCHANGED <<wrapperOut, closes>>
       ELSE /\ respBody' = body
            /\ closes' = closes \o DecodeCloses(retResp.id)
            /\ result' = WrapperResult(decodeResponse(retResp, body, TargetOf(wrapper)))
            /\ err' = IF decodeResponse(retResp, body, TargetOf(wrapper)) = NoErr
                        THEN NoErr
                      ELSE IF wrapper = "DeleteWebhook"
                        THEN decodeResponse(retResp, body, TargetOf(wrapper))
                      ELSE Wrapf(decodeResponse(retResp, body, TargetOf(wrapper)))
            /\ pc' = "done"
  /\ UNCHANGED <<config, concVars, decodeVars, tsVars, iterVars, wrapVars, bucket, ctxCancelled, optsLimit,
                 optsOffset, locals, returned, attempts, tokensAcquired, sleeps, outcomes, sent>>

NextWrappers ==
  \/ \E w \in Wrappers : \E a \in ArgsOf(w) : CallWrapper(w, a)
  \/ RateLimiterWait
  \/ LoopHead
  \/ \E o \in Outcomes, c \in BOOLEAN : TransportDo(o, c)
  \/ Sleep
  \/ \E body \in BodyKinds : WrapperReturn(body)

SpecWrappers == InitWrappers /\ [][NextWrappers]_vars

\* the wrapper called takes a required string identifier and got an empty one
EmptyID == StringIDs(wrapper) > 0 /\ \E k \in 1..Len(args.ids) : args.ids[k] = ""

\* C19: every wrapper with a required string identifier, called with an empty
\* one, returns a ValidationError and a nil result before any I/O: the call
\* goes straight to its end, no token is taken and no attempt is made.
C19_EmptyIDRejected ==
  (wrapper # NoWrapper /\ EmptyID) =>
    /\ pc = "done"
    /\ err.kind = "ValidationError"
    /\ result = "nil"
    /\ tokensAcquired = 0
    /\ bucket = Burst
    /\ attempts = 0

\* C19 witness: DeleteWebhook(ctx, "") has returned its ValidationError, and
\* nothing has touched the limiter or the transport.
C19_Witness ==
  /\ wrapper = "DeleteWebhook"
  /\ args.ids = <<"">>
  /\ pc = "done"
  /\ err = NewValidationError("id")
  /\ tokensAcquired = 0
  /\ attempts = 0

\* C20: each bulk-creation wrapper called with an empty item list returns
\* a ValidationError without making any HTTP attempt.
C20_EmptyBulkRejected ==
  (wrapper \in BulkCreate /\ args.items = 0) =>
    /\ attempts = 0
    /\ pc = "done" => err.kind = "ValidationError"

\* ------------------------------------------- the executor's entry points
\* payloads given to doJSONRequest: nil, a value json can encode, and one it
\* cannot (a struct with a channel)
Payloads == {"nil", "value", "unencodable"}

\* doRequest called by itself
CallDoRequest ==
  /\ pc = "idle"
  /\ wrapper = NoWrapper
  /\ entry' = doRequest
  /\ pc' = "wait"
  /\ UNCHANGED <<config, concVars, decodeVars, tsVars, iterVars, wrapper, args, bucket, ctxCancelled,
                 optsLimit, optsOffset, locals, returned, wrapperOut, history>>

\* doJSONRequest called by itself, up to its call of doRequestWithBody
CallDoJSONRequest(payload) ==
  /\ pc = "idle"
  /\ wrapper = NoWrapper
  /\ entry' = doJSONRequest(payload)
  /\ IF payload = "unencodable"
       THEN /\ retResp' = NilResp
            /\ retErr' = NewNetworkError("failed to encode request body", 0)
            /\ pc' = "ret"
       ELSE /\ pc' = "wait"
            /\ UNCHANGED returned
  /\ UNCHANGED <<config, concVars, decodeVars, tsVars, iterVars, wrapper, args, bucket, ctxCancelled,
                 optsLimit, optsOffset, locals, wrapperOut, history>>

\* SubmitJobApplication up to its call of doRequestWithBody with the multipart
\* form in a bytes.Buffer; valid: the required fields are all present
SubmitJobApplication(valid) ==
  /\ pc = "idle"
  /\ wrapper = NoWrapper
  /\ wrapper' = "SubmitJobApplication"
  /\ IF ~valid
       THEN /\ result' = "nil"
            /\ err' = NewValidationError("application")
            /\ pc' = "done"
            /\ UNCHANGED entry
       ELSE /\ entry' = [body |-> "buffer", contentType |-> "multipart/form-data"]
            /\ pc' = "wait"
            /\ UNCHANGED <<result, err>>
  /\ UNCHANGED <<config, concVars, decodeVars, tsVars, iterVars, args, bucket, ctxCancelled, optsLimit,
                 optsOffset, locals, returned, respBody, history>>

NextExecutor ==
  \/ CallDoRequest
  \/ \E payload \in Payloads : CallDoJSONRequest(payload)
  \/ \E valid \in BOOLEAN : SubmitJobApplication(valid)
  \/ RateLimiterWait
  \/ LoopHead
  \/ \E o \in Outcomes, c \in BOOLEAN : TransportDo(o, c)
  \/ Sleep
  \/ \E body \in BodyKinds : WrapperReturn(body)

SpecExecutor == InitWrappers /\ [][NextExecutor]_vars

\* C23: a request that was sent carries a Content-Type header exactly when
\* it has a body
C23_ContentTypeIffBody ==
  attempts > 0 => ((req.contentType # "") <=> (req.body # "none"))

\* ------------------------------------------------------------- Timestamp
\* a time.Time: seconds and nanoseconds since the zero time (January 1 of
\* year 1, UTC) and the zone offset of its Location in seconds
Time(sec, nsec, off) == [sec |-> sec, nsec |-> nsec, off |-> off]
ZeroTime == Time(0, 0, 0)
Secs == {0, 1, 86400}
Nsecs == {0, 1, 549229000}
ZoneOffsets == {0, 3600, -25200, 1172}
Times == {Time(sec, nsec, off) : sec \in Secs, nsec \in Nsecs, off \in ZoneOffsets}

\* the quotient of Go's integer division, which truncates toward zero
TruncDiv(a, b) == IF a >= 0 THEN a \div b ELSE -((-a) \div b)

\* a JSON value a Timestamp is written to or read from: null, something that
\* is no timestamp, or a quoted timestamp with its wall clock (seconds since
\* the zero time), its fraction and its zone ("Z", "+hh:mm" or "+hhmm",
\* zmin minutes east)
NullText == [kind |-> "null", wall |-> 0, nsec |-> 0, zone |-> "", zmin |-> 0]
Garbage == [kind |-> "garbage", wall |-> 0, nsec |-> 0, zone |-> "", zmin |-> 0]
Stamp(wall, nsec, zone, zmin) ==
  [kind |-> "string", wall |-> wall, nsec |-> nsec, zone |-> zone, zmin |-> zmin]

\* t.IsZero()
IsZero(t) == t.sec = 0 /\ t.nsec = 0

\* t.Format(time.RFC3339Nano): the wall clock in t's zone, and the zone as
\* "Z" or as hours and minutes
Format(t) ==
  Stamp(t.sec + t.off, t.nsec, IF t.off = 0 THEN "Z" ELSE "colon", TruncDiv(t.off, 60))

\* Timestamp.MarshalJSON
MarshalJSON(t) == IF IsZero(t) THEN NullText ELSE Format(t)

\* time.Parse succeeds on the text with time.RFC3339Nano
ParsesRFC3339Nano(b) == b.kind = "string" /\ b.zone \in {"Z", "colon"}
\* time.Parse succeeds on the text with "2006-01-02T15:04:05.999999-0700"
ParsesNoColon(b) == b.kind = "string" /\ b.zone = "nocolon"
\* the time time.Parse yields
Parsed(b) == Time(b.wall - b.zmin * 60, b.nsec, b.zmin * 60)

\* Timestamp.UnmarshalJSON: whether it returns an error
UnmarshalFails(b) == ~(ParsesRFC3339Nano(b) \/ ParsesNoColon(b))
\* Timestamp.UnmarshalJSON: t.Time after the call, for t.Time = old before it
UnmarshalJSON(b, old) == IF UnmarshalFails(b) THEN old ELSE Parsed(b)

\* texts the API sends
APITexts ==
  {NullText, Garbage} \cup
  {Stamp(sec, nsec, zone, 0) : sec \in Secs \ {0}, nsec \in Nsecs, zone \in {"Z", "nocolon"}}

InitTimestamp ==
  /\ AtRest
  /\ decIn = NoDecode
  /\ decOut = NotDecoded
  /\ wrapper = NoWrapper
  /\ args = NoArgs
  /\ NotIterating
  /\ ts \in [pc : {"new"}, t : Times, json : {NullText}, out : {ZeroTime}, err : {FALSE}]
           \cup [pc : {"received"}, t : {ZeroTime}, json : APITexts, out : {ZeroTime},
                 err : {FALSE}]

\* json.Marshal of a Timestamp value
Marshal ==
  /\ ts.pc = "new"
  /\ ts' = [ts EXCEPT !.pc = "marshalled", !.json = MarshalJSON(ts.t)]
  /\ UNCHANGED <<config, concVars, callVars, decodeVars, wrapVars, iterVars, bucket>>

\* json.Unmarshal of the text into a fresh Timestamp
Unmarshal ==
  /\ ts.pc \in {"marshalled", "received"}
  /\ ts' = [ts EXCEPT !.pc = IF ts.pc = "marshalled" THEN "roundtrip" ELSE "decoded",
                      !.out = UnmarshalJSON(ts.json, ZeroTime),
                      !.err = UnmarshalFails(ts.json)]
  /\ UNCHANGED <<config, concVars, callVars, decodeVars, wrapVars, iterVars, bucket>>

NextTimestamp == Marshal \/ Unmarshal

SpecTimestamp == InitTimestamp /\ [][NextTimestamp]_vars

\* t.Equal(u): the same instant
Equal(t, u) == t.sec = u.sec /\ t.nsec = u.nsec

\* C24: for every Timestamp t, the zero value included, UnmarshalJSON of
\* MarshalJSON(t) succeeds and yields a time equal to t
C24_TimestampRoundTrip ==
  ts.pc = "roundtrip" => (~ts.err /\ Equal(ts.out, ts.t))

\* ------------------------------------------------------ IterateInventory
\* a page GetSellerInventory returns: the items and the Pagination the
\* backend reports
Page(inventory, r, total) ==
  [inventory |-> inventory, returned |-> r, total |-> total]
\* items n+1 .. n+k of the inventory, which are numbered from 1
Items(n, k) == [j \in 1..k |-> n + j]

\* the pages a backend can answer a request at offset o with. A "paged"
\* backend holds items 1 .. total and serves the next one or more of them,
\* reporting how many it served; an "any" backend reports a constant Total
\* and whatever Returned >= 0 and items it likes
PagesAt(b, o) ==
  IF b.kind = "paged"
    THEN IF o >= b.total
           THEN {Page(<<>>, 0, b.total)}
           ELSE {Page(Items(o, r), r, b.total) : r \in 1..Min(MaxPage, b.total - o)}
    ELSE {Page(Items(o, n), r, b.total) : n \in 0..MaxPage, r \in 0..MaxPage}

\* the errors a callback and GetSellerInventory return
CallbackError == PlainError("callback error")
FetchError == NewAPIError(StatusInternalServerError, "Internal Server Error")
\* fetched's entry for a call of GetSellerInventory that failed
FetchFailed == -1

\* `if err := callback(&resp.Inventory[i]); err != nil`
CallbackFailed_Ignored(e) == FALSE
CallbackFailed(e) == e # NoErr

\* `resp.Pagination.Returned == 0 || offset+resp.Pagination.Returned >= resp.Pagination.Total`
Done_NoProgressCheck(r, o) == o + r.returned >= r.total
Done_Strict(r, o) == r.returned = 0 \/ o + r.returned > r.total
Done(r, o) == r.returned = 0 \/ o + r.returned >= r.total

\* `offset += resp.Pagination.Returned`
NextOffset_ByLimit(r, o) == o + DefaultLimit
NextOffset(r, o) == o + r.returned

InitIterate ==
  /\ AtRest
  /\ decIn = NoDecode
  /\ decOut = NotDecoded
  /\ wrapper = NoWrapper
  /\ args = NoArgs
  /\ ts = NoTimestamp
  /\ itPc = "idle"
  /\ itOffset = 0
  /\ itResp = NoPage
  /\ idx = 0
  /\ itErr = NoErr
  /\ requested = <<>>
  /\ fetched = <<>>
  /\ seen = <<>>
  /\ backend \in [kind : {"paged", "any"}, total : 0..MaxTotal]

\* IterateInventory up to the head of its loop
IterateInventory ==
  /\ itPc = "idle"
  /\ itOffset' = 0
  /\ itPc' = "fetch"
  /\ UNCHANGED <<config, concVars, callVars, decodeVars, wrapVars, tsVars, bucket,
                 itResp, idx, itErr, requested, fetched, seen, backend>>

\* the pages any backend serves
Pages ==
  {Page(Items(o, n), r, t) : o \in 0..MaxTotal, n \in 0..MaxPage, r \in 0..MaxPage,
                             t \in 0..MaxTotal}

\* client.GetSellerInventory(ctx, opts) with opts.Offset = offset, answered
\* by the backend with page p or, when fails, with an error
FetchPage(p, fails) ==
  /\ itPc = "fetch"
  /\ Len(requested) < MaxTotal + 2
  /\ p \in PagesAt(backend, itOffset)
  /\ requested' = Append(requested, itOffset)
  /\ IF fails
       THEN /\ fetched' = Append(fetched, FetchFailed)
            /\ itErr' = Wrapf(FetchError)
            /\ itPc' = "done"
            /\ UNCHANGED <<itResp, idx>>
       ELSE /\ fetched' = Append(fetched, p.returned)
            /\ itResp' = p
            /\ idx' = 0
            /\ itPc' = "items"
            /\ UNCHANGED itErr
  /\ UNCHANGED <<config, concVars, callVars, decodeVars, wrapVars, tsVars, bucket,
                 itOffset, seen, backend>>

\* one round of `for i := range resp.Inventory`: the callback is given the
\* next item and returns e
Callback(e) ==
  /\ itPc = "items"
  /\ idx < Len(itResp.inventory)
  /\ seen' = Append(seen, [item |-> itResp.inventory[idx + 1], err |-> e])
  /\ IF CallbackFailed(e)
       THEN /\ itErr' = Wrapf(e)
            /\ itPc' = "done"
            /\ UNCHANGED idx
       ELSE /\ idx' = idx + 1
            /\ UNCHANGED <<itErr, itPc>>
  /\ UNCHANGED <<config, concVars, callVars, decodeVars, wrapVars, tsVars, bucket,
                 itOffset, itResp, requested, fetched, backend>>

\* after the items of the page: break and return nil, or advance the offset
CheckDone ==
  /\ itPc = "items"
  /\ idx = Len(itResp.inventory)
  /\ IF Done(itResp, itOffset)
       THEN /\ itPc' = "done"
            /\ UNCHANGED itOffset
       ELSE /\ itOffset' = NextOffset(itResp, itOffset)
            /\ itPc' = "fetch"
  /\ UNCHANGED <<config, concVars, callVars, decodeVars, wrapVars, tsVars, bucket,
                 itResp, idx, itErr, requested, fetched, seen, backend>>

NextIterate ==
  \/ IterateInventory
  \/ \E p \in Pages, fails \in BOOLEAN : FetchPage(p, fails)
  \/ \E e \in {NoErr, CallbackError} : Callback(e)
  \/ CheckDone

SpecIterate == InitIterate /\ [][NextIterate]_vars
\* an IterateInventory call that has not returned takes its next step
FairSpecIterate == SpecIterate /\ WF_vars(NextIterate)

\* the call is one of the four SKU wrappers of TestAllValidationErrors with a
\* SKU that is zero or negative
BadSKU ==
  /\ wrapper \in {"GetInventoryBySKU", "UpdateInventoryBySKU",
                   "DeleteInventoryBySKU", "GetSellerInventoryBySKU"}
  /\ args.sku <= 0

\* C21: a SKU wrapper called with a SKU that is zero or negative returns a
\* ValidationError and makes no HTTP attempt
C21_BadSKURejected ==
  BadSKU =>
    /\ attempts = 0
    /\ pc = "done"
    /\ err.kind = "ValidationError"
    /\ result = "nil"

\* pagination bounds out of range: Limit < 0, Limit > 500 or Offset < 0
OutOfRange(limit, offset) == limit < 0 \/ limit > DefaultLimit \/ offset < 0

\* C22: GetSellerInventory called with out-of-range pagination bounds returns
\* a ValidationError before any network call, and Limit = 0 is sent as 500
C22_BadPaginationIsValidationError ==
  [][\A l \in Limits, o \in Offsets :
       GetSellerInventory(l, o) =>
         IF OutOfRange(l, o)
           THEN /\ pc' = "done"
                /\ err'.kind = "ValidationError"
                /\ result' = "nil"
                /\ attempts' = 0
                /\ tokensAcquired' = 0
           ELSE l = 0 => optsLimit' = DefaultLimit]_vars

\* page k, requested at offset requested[k], ended the iteration
FinalPage(k) == fetched[k] = 0 \/ requested[k] + fetched[k] >= backend.total

\* C25: against a backend holding T items served in pages the callback is
\* invoked once for each item in page order, the pages are requested at
\* offsets 0, r1, r1+r2, ..., the iteration stops after the first page with
\* Returned = 0 or offset + Returned >= Total, and with an empty inventory
\* the callback is never invoked
C25_EachItemOnceInPageOrder ==
  backend.kind = "paged" =>
    /\ \A k \in 1..Len(seen) : seen[k].item = k
    /\ \A k \in 1..Len(requested) :
         requested[k] = IF k = 1 THEN 0 ELSE requested[k - 1] + fetched[k - 1]
    /\ \A k \in 1..(Len(requested) - 1) : ~FinalPage(k)
    /\ (itPc = "done" /\ itErr = NoErr) =>
         /\ Len(seen) = backend.total
         /\ FinalPage(Len(requested))
    /\ backend.total = 0 => seen = <<>>

\* a paged inventory was iterated to its end over more than one page
C25_Witness ==
  /\ backend.kind = "paged"
  /\ itPc = "done"
  /\ itErr = NoErr
  /\ Len(requested) >= 2
  /\ Len(seen) >= 2

\* C26: the first callback invocation that returns an error ends the
\* iteration with an error wrapping the callback's, and a failed page fetch
\* ends it with an error; after either no item is passed to the callback and
\* no page is requested
C26_ErrorStopsIteration ==
  /\ [](\A k \in 1..Len(seen) :
          seen[k].err # NoErr =>
            /\ k = Len(seen)
            /\ itPc = "done"
            /\ itErr = Wrapf(seen[k].err))
  /\ [](\A k \in 1..Len(fetched) :
          fetched[k] = FetchFailed =>
            /\ k = Len(requested)
            /\ itPc = "done"
            /\ itErr # NoErr)
  /\ [][itErr # NoErr => (seen' = seen /\ requested' = requested)]_vars

\* the callback failed on an item after it had accepted another
C26_Witness ==
  /\ itPc = "done"
  /\ Len(seen) >= 2
  /\ seen[Len(seen)].err = CallbackError
  /\ itErr = Wrapf(CallbackError)

\* C30: with a constant Total and Returned >= 0 the iteration returns; the
\* offset only grows, and at most Total + 1 pages are requested
C30_IterationTerminates ==
  /\ <>(itPc = "done")
  /\ [](Len(requested) <= backend.total + 1)
  /\ [][itOffset' # itOffset => itOffset' > itOffset]_vars

\* an iteration that took as many pages as the backend has items
C30_Witness ==
  /\ itPc = "done"
  /\ itErr = NoErr
  /\ backend.kind = "any"
  /\ backend.total >= 2
  /\ Len(requested) = backend.total

\* C27: every attempt of a request that has a body transmits the body's
\* bytes, as the first attempt does; no retry finds the body already read
C27_RetriesResendBody ==
  req.body # "none" => \A k \in 1..Len(sent) : sent[k] = "bytes"

\* the logical request is between its entry and its return
InProgress == pc \in {"wait", "loop", "do", "sleep"}

\* C28: once ctx is cancelled the request starts at most one more attempt
\* and then returns a NetworkError and no response; a backoff sleep under
\* way is slept to its end and followed by the next pass of the loop
C28_CancelledEndsInNetworkError ==
  /\ [][(ctxCancelled /\ attempts' > attempts) =>
          (pc' = "ret" /\ retErr'.kind = "NetworkError")]_vars
  /\ [][(ctxCancelled /\ InProgress /\ pc' = "ret") =>
          (retErr'.kind = "NetworkError" /\ retResp' = NilResp)]_vars
  /\ [][(ctxCancelled /\ pc = "sleep" /\ pc' # "sleep") =>
          (pc' = "loop" /\ Len(sleeps') = Len(sleeps) + 1)]_vars

\* C29: doRequestWithBody never returns a nil response with a nil error,
\* whatever maxRetries is: with a nil error it returns the response of the
\* last attempt made
C29_NeverNilResponseNilError ==
  (ExecutorReturned /\ retErr = NoErr) =>
    /\ retResp # NilResp
    /\ attempts > 0
    /\ retResp = Response(outcomes[attempts], attempts)
====
